---- MODULE Spec2Model ----
(***************************************************************************)
(* Model of app-v26.py: the Streamlit dashboard over the San Francisco     *)
(* incident reports.  The script is a straight-line program that Streamlit *)
(* re-executes from its first line on every user interaction; load_data    *)
(* is memoised by st.cache_data, everything else is recomputed per run.    *)
(***************************************************************************)
EXTENDS Integers, Sequences, FiniteSets, TLC

VARIABLES
    csv,          \* rows of Sampled_Incident_Reports.csv (never written)
    cache,        \* st.cache_data entry of load_data(): NoEntry or the stored frame
    builds,       \* executions of the body of load_data in this process
    pc,           \* position of the session's script run
    df,           \* the module-level name df of the current run
    sf_geo,       \* the module-level name sf_geo of the current run
    out,          \* the aggregate the last executed tab handed to its chart
    runs,         \* script runs started in the session
    applies,      \* executions of line 33 (norm_res applied to the frame)
    geoloads,     \* executions of lines 36-37 (json.load)
    sess,         \* SpecCache: per-session state of a concurrent first access
    lock,         \* SpecCache: holder of the cache's compute lock (0: free)
    cl,           \* SpecClassify: last norm_res call, argument and result
    lim,          \* SpecLimit: the frame handed to limit_data and the calls made
    rs42          \* SpecLimit: the order RandomState(42) draws the frame's rows in

vars == <<csv, cache, builds, pc, df, sf_geo, out, runs, applies, geoloads,
          sess, lock, cl, lim, rs42>>

(***************************************************************************)
(* Bounds of the model.                                                    *)
(***************************************************************************)
MaxRows == 3
MaxRuns == 2
MaxSessions == 2
MaxLimRows == 3

NoValue == "NoValue"
NaN == "NaN"

(***************************************************************************)
(* Text: a Python str is a sequence of one-character strings.              *)
(***************************************************************************)
LowerChars == <<"a","b","c","d","e","f","g","h","i","j","k","l","m",
                "n","o","p","q","r","s","t","u","v","w","x","y","z">>
UpperChars == <<"A","B","C","D","E","F","G","H","I","J","K","L","M",
                "N","O","P","Q","R","S","T","U","V","W","X","Y","Z">>

UpperChar(c) ==
    IF \E i \in 1..26 : LowerChars[i] = c
    THEN UpperChars[CHOOSE i \in 1..26 : LowerChars[i] = c]
    ELSE c

\* str.upper()
Upper(s) == [i \in 1..Len(s) |-> UpperChar(s[i])]

\* Python's `k in s` on two strings
StrIn(k, s) ==
    \E i \in 1..(Len(s) - Len(k) + 1) : SubSeq(s, i, i + Len(k) - 1) = k

\* A cell handed to norm_res: a str, the float nan of a missing cell, None, or an int.
StrVal(s) == [t |-> "str", v |-> s]
NanVal == [t |-> "nan", v |-> <<>>]
NoneVal == [t |-> "none", v |-> <<>>]
IntVal(ds) == [t |-> "int", v |-> ds]

\* str(r)
Str(r) ==
    CASE r.t = "str" -> r.v
      [] r.t = "nan" -> <<"n","a","n">>
      [] r.t = "none" -> <<"N","o","n","e">>
      [] r.t = "int" -> r.v

resolved_keys == << <<"A","R","R","E","S","T">>,
                    <<"B","O","O","K","E","D">>,
                    <<"C","I","T","E","D">>,
                    <<"C","L","E","A","R","E","D">>,
                    <<"E","X","C","E","P","T","I","O","N","A","L">> >>

\* r_up of norm_res
NormResUpNotUppercased(r) == Str(r)
NormResUp(r) == Upper(Str(r))

\* any(k in r_up for k in resolved_keys)
AnyKey(r_up) == \E i \in 1..Len(resolved_keys) : StrIn(resolved_keys[i], r_up)

norm_res(r) == IF AnyKey(NormResUp(r)) THEN "Resolved" ELSE "Open"

(***************************************************************************)
(* Calendar.                                                               *)
(***************************************************************************)
IsLeap(y) == (y % 4 = 0 /\ y % 100 # 0) \/ y % 400 = 0

DaysInMonth(y, m) ==
    IF m = 2 THEN (IF IsLeap(y) THEN 29 ELSE 28)
    ELSE IF m \in {4, 6, 9, 11} THEN 30 ELSE 31

DayNames == <<"Sunday", "Monday", "Tuesday", "Wednesday", "Thursday", "Friday", "Saturday">>

\* 0 = Sunday
DayOfWeek(y, m, d) ==
    LET t == <<0, 3, 2, 5, 0, 3, 5, 1, 4, 6, 2, 4>>
        yy == IF m < 3 THEN y - 1 ELSE y
    IN (yy + (yy \div 4) - (yy \div 100) + (yy \div 400) + t[m] + d) % 7

\* Series.dt.day_name()
day_name(ts) == DayNames[DayOfWeek(ts.year, ts.month, ts.day) + 1]

(***************************************************************************)
(* The raw table.  A datetime cell is text holding a year, month, day and  *)
(* hour as written ("iso"), text that is no date ("junk"), or empty.       *)
(***************************************************************************)
DtText(y, mo, d, h) == [k |-> "iso", y |-> y, mo |-> mo, d |-> d, h |-> h]
DtJunk == [k |-> "junk", y |-> 0, mo |-> 0, d |-> 0, h |-> 0]
DtEmpty == [k |-> "nan", y |-> 0, mo |-> 0, d |-> 0, h |-> 0]

NaT == [nat |-> TRUE, year |-> 0, month |-> 0, day |-> 0, hour |-> 0]

\* pd.to_datetime(cell, errors="coerce", utc=True)
to_datetime(c) ==
    IF c.k = "iso" /\ c.mo \in 1..12 /\ c.d >= 1 /\ c.d <= DaysInMonth(c.y, c.mo)
                   /\ c.h \in 0..23
    THEN [nat |-> FALSE, year |-> c.y, month |-> c.mo, day |-> c.d, hour |-> c.h]
    ELSE NaT

Raw(dt, lat, lon, cat, neigh, dist, res) ==
    [dt |-> dt, lat |-> lat, lon |-> lon, cat |-> cat, neigh |-> neigh,
     dist |-> dist, res |-> res]

TxtOpenActive == StrVal(<<"O","p","e","n"," ","o","r"," ","A","c","t","i","v","e">>)
TxtCiteArrest == StrVal(<<"C","i","t","e"," ","o","r"," ","A","r","r","e","s","t">>)

\* The rows a file is made of: usable rows of two years, rows with missing
\* category, neighborhood, district and resolution, and every way a row is unusable.
RawRows ==
    { Raw(DtText(2025, 3, 2, 12), "37.77", "-122.42", "Larceny", "Mission", "Central", TxtOpenActive),
      Raw(DtText(2025, 1, 1, 12), "37.77", "-122.42", NaN, NaN, NaN, NanVal),
      Raw(DtText(2025, 3, 31, 12), "37.80", "-122.40", "Assault", "Marina", "Central", TxtCiteArrest),
      Raw(DtText(2024, 3, 5, 12), "37.77", "-122.42", "Larceny", "Mission", "Northern", TxtCiteArrest),
      Raw(DtText(2024, 3, 31, 23), "37.80", "-122.40", "Larceny", NaN, "Central", TxtOpenActive),
      Raw(DtText(2025, 3, 2, 12), "37.77", NaN, "Larceny", "Mission", "Central", TxtOpenActive),
      Raw(DtText(2025, 3, 2, 12), NaN, "-122.42", "Larceny", "Mission", "Central", TxtOpenActive),
      Raw(DtText(2025, 2, 29, 12), "37.77", "-122.42", "Larceny", "Mission", "Central", TxtOpenActive),
      Raw(DtJunk, "37.77", "-122.42", "Assault", "Marina", "Northern", TxtCiteArrest),
      Raw(DtEmpty, NaN, NaN, NaN, NaN, NaN, NanVal) }

RECURSIVE SeqsUpTo(_, _)
SeqsUpTo(S, n) ==
    IF n = 0 THEN {<<>>}
    ELSE LET shorter == SeqsUpTo(S, n - 1)
         IN shorter \cup {Append(s, x) : s \in {t \in shorter : Len(t) = n - 1}, x \in S}

CsvFiles == SeqsUpTo(RawRows, MaxRows)

(***************************************************************************)
(* load_data: the body that st.cache_data memoises.                        *)
(***************************************************************************)
With(r, name, val) == [f \in DOMAIN r \cup {name} |-> IF f = name THEN val ELSE r[f]]

\* pd.read_csv: one record per row, labelled by the RangeIndex 0..n-1
read_csv(file) == [i \in 1..Len(file) |-> With(file[i], "idx", i - 1)]

\* df["Incident Datetime"] = pd.to_datetime(df["Incident Datetime"], errors="coerce", utc=True)
ParseDatetime(frame) == [i \in 1..Len(frame) |-> [frame[i] EXCEPT !.dt = to_datetime(@)]]

\* the row test of dropna(subset=["Incident Datetime", "Latitude", "Longitude"])
DropnaSubsetMissingLongitude(r) == ~r.dt.nat /\ r.lat # NaN
DropnaKeeps(r) == ~r.dt.nat /\ r.lat # NaN /\ r.lon # NaN

dropna(frame) == SelectSeq(frame, DropnaKeeps)

\* lines 12-17: the derived calendar columns
Floor_D(ts) == [year |-> ts.year, month |-> ts.month, day |-> ts.day]

DeriveRow(r) ==
    [f \in DOMAIN r \cup {"date", "hour", "year", "weekday", "month", "day"} |->
        CASE f = "date" -> Floor_D(r.dt)
          [] f = "hour" -> r.dt.hour
          [] f = "year" -> r.dt.year
          [] f = "weekday" -> day_name(r.dt)
          [] f = "month" -> r.dt.month
          [] f = "day" -> r.dt.day
          [] OTHER -> r[f]]

\* Series.fillna("Unknown")
fillna(v) == IF v = NaN THEN "Unknown" ELSE v

FillNeighborhoodSkipped(r) == r
FillNeighborhood(r) == [r EXCEPT !.neigh = fillna(r.neigh)]

load_data_body(file) ==
    LET kept == dropna(ParseDatetime(read_csv(file)))
    IN [i \in 1..Len(kept) |-> FillNeighborhood(DeriveRow(kept[i]))]

\* line 33: df['resolution_status'] = df['Resolution'].apply(norm_res)
ApplyNormRes(frame) ==
    [i \in 1..Len(frame) |-> With(frame[i], "resolution_status", norm_res(frame[i].res))]

\* line 34: df['Incident Category'] = df['Incident Category'].fillna('Unknown').astype(str)
FillCategory(frame) == [i \in 1..Len(frame) |-> [frame[i] EXCEPT !.cat = fillna(@)]]

(***************************************************************************)
(* st.cache_data: the entry of load_data() holds a serialised frame; a hit *)
(* hands out a fresh copy of it, a miss runs the body and stores a copy.   *)
(***************************************************************************)
NoEntry == [has |-> FALSE, val |-> <<>>]
Entry(frame) == [has |-> TRUE, val |-> frame]

\* line 7: load_data is decorated with @st.cache_data
CacheDataMissing == FALSE
CacheDataDecorated == TRUE

CacheHit(c) == CacheDataDecorated /\ c.has

(***************************************************************************)
(* Query primitives: what the tabs compute with pandas.                    *)
(***************************************************************************)
\* Series.unique()
Unique(frame, col) == {frame[i][col] : i \in 1..Len(frame)}

\* Series.value_counts(): a count for every value that occurs, none for the others
value_counts(frame, col) ==
    {[value |-> v, count |-> Len(SelectSeq(frame, LAMBDA r : r[col] = v))] : v \in Unique(frame, col)}

RECURSIVE sorted(_)
sorted(S) ==
    IF S = {} THEN <<>>
    ELSE LET m == CHOOSE x \in S : \A y \in S : x <= y
         IN <<m>> \o sorted(S \ {m})

\* list.index(x): the position, or ValueError when x is not in the list
ValueError == [ok |-> FALSE, i |-> 0]
list_index(list, x) ==
    IF \E i \in 1..Len(list) : list[i] = x
    THEN [ok |-> TRUE, i |-> (CHOOSE i \in 1..Len(list) : list[i] = x) - 1]
    ELSE ValueError

\* pd.Grouper(key='date', freq='M'): a date's bin is labelled by the end of its month
MonthEndFirstDay(date) == [year |-> date.year, month |-> date.month, day |-> 1]
MonthEnd(date) ==
    [year |-> date.year, month |-> date.month, day |-> DaysInMonth(date.year, date.month)]

MonthNo(date) == date.year * 12 + (date.month - 1)
MonthOfNo(n) == [year |-> n \div 12, month |-> (n % 12) + 1, day |-> 1]

\* groupby([pd.Grouper(key='date', freq='M'), 'Incident Category']).size(): the observed pairs
groupby_month_category(frame) ==
    {[date |-> b, cat |-> c,
      count |-> Len(SelectSeq(frame, LAMBDA r : MonthEnd(r.date) = b /\ r.cat = c))] :
        <<b, c>> \in {<<MonthEnd(frame[i].date), frame[i].cat>> : i \in 1..Len(frame)}}

\* groupby(pd.Grouper(key='date', freq='M')).size(): every month-end bin from the
\* first record's month to the last record's month, the empty ones with size 0
groupby_month(frame) ==
    IF frame = <<>> THEN {}
    ELSE LET nos == {MonthNo(frame[i].date) : i \in 1..Len(frame)}
             lo == CHOOSE n \in nos : \A k \in nos : n <= k
             hi == CHOOSE n \in nos : \A k \in nos : n >= k
         IN {[date |-> MonthEnd(MonthOfNo(n)),
              count |-> Len(SelectSeq(frame, LAMBDA r : MonthNo(r.date) = n))] : n \in lo..hi}

\* the 'All' entry of a selectbox over integers, and a chosen integer
SelAll == [all |-> TRUE, none |-> FALSE, v |-> 0]
SelOf(v) == [all |-> FALSE, none |-> FALSE, v |-> v]
SelNone == [all |-> FALSE, none |-> TRUE, v |-> 0]
Options(S) == {SelAll} \cup {SelOf(v) : v \in S}

\* st.selectbox without 'All': one of the options, None when there is none
SelectBox(S) == IF S = {} THEN {"None"} ELSE S
SelectBoxInt(S) == IF S = {} THEN {SelNone} ELSE {SelOf(v) : v \in S}

\* column == selected, for an integer column
EqSel(x, sel) == ~sel.all /\ ~sel.none /\ x = sel.v

\* line 82 and line 144: st.slider(.., 0, 23, 12); the two ends and the default
HourChoices == {0, 12, 23}

DefaultYear == 2025

\* line 152: the x encoding's sort puts the weekdays present in this order
AlphabeticalDayNames ==
    <<"Friday", "Monday", "Saturday", "Sunday", "Thursday", "Tuesday", "Wednesday">>
x_sort_default(table) == SelectSeq(AlphabeticalDayNames, LAMBDA w : \E e \in table : e.value = w)
x_sort(table) == SelectSeq(DayNames, LAMBDA w : \E e \in table : e.value = w)

(***************************************************************************)
(* The script run of one session.                                          *)
(***************************************************************************)
NoOut == [tab |-> "none"]
OtherSpecsIdle == UNCHANGED <<sess, lock, cl, lim, rs42>>

\* Streamlit starts a run of the script: the first one, or a rerun after a widget
\* changed (a running script is interrupted only inside an st.* call, past line 39).
RunScript ==
    /\ pc \in {"start", "tab1", "tab2", "tab3", "tab4", "tab5", "done", "error"}
    /\ runs < MaxRuns
    /\ runs' = runs + 1
    /\ pc' = "l32"
    /\ df' = <<>>
    /\ sf_geo' = NoValue
    /\ out' = NoOut
    /\ UNCHANGED <<csv, cache, builds, applies, geoloads>>
    /\ OtherSpecsIdle

\* line 32: df = load_data()
LoadData ==
    /\ pc = "l32"
    /\ IF CacheHit(cache)
       THEN /\ df' = cache.val
            /\ UNCHANGED <<cache, builds>>
       ELSE /\ df' = load_data_body(csv)
            /\ cache' = Entry(load_data_body(csv))
            /\ builds' = builds + 1
    /\ pc' = "l33"
    /\ UNCHANGED <<csv, sf_geo, out, runs, applies, geoloads>>
    /\ OtherSpecsIdle

\* line 33
Line33 ==
    /\ pc = "l33"
    /\ df' = ApplyNormRes(df)
    /\ applies' = applies + 1
    /\ pc' = "l34"
    /\ UNCHANGED <<csv, cache, builds, sf_geo, out, runs, geoloads>>
    /\ OtherSpecsIdle

\* line 34
Line34 ==
    /\ pc = "l34"
    /\ df' = FillCategory(df)
    /\ pc' = "l36"
    /\ UNCHANGED <<csv, cache, builds, sf_geo, out, runs, applies, geoloads>>
    /\ OtherSpecsIdle

\* lines 36-37: sf_geo = json.load(f)
LoadGeo ==
    /\ pc = "l36"
    /\ sf_geo' = "features"
    /\ geoloads' = geoloads + 1
    /\ pc' = "tab1"
    /\ UNCHANGED <<csv, cache, builds, df, out, runs, applies>>
    /\ OtherSpecsIdle

QueryFrame == UNCHANGED <<csv, cache, builds, sf_geo, runs, applies, geoloads>>

\* what a filter leaves in the name df
RebindToView(store, view) == view
KeepOrRebind(store, view) == store

\* lines 42-72
Tab1 ==
    /\ pc = "tab1"
    /\ \E selected_category \in {"All"} \cup Unique(df, "cat"),
          selected_neighborhood_ts \in {"All"} \cup Unique(df, "neigh") :
         LET f1 == IF selected_category # "All"
                   THEN SelectSeq(df, LAMBDA r : r.cat = selected_category) ELSE df
             df_filtered == IF selected_neighborhood_ts # "All"
                            THEN SelectSeq(f1, LAMBDA r : r.neigh = selected_neighborhood_ts)
                            ELSE f1
         IN /\ out' = [tab |-> "tab1", sel |-> df_filtered,
                       df_time_series |-> groupby_month_category(df_filtered)]
            /\ df' = KeepOrRebind(df, df_filtered)
    /\ pc' = "tab2"
    /\ QueryFrame
    /\ OtherSpecsIdle

\* lines 74-138
Tab2 ==
    /\ pc = "tab2"
    /\ LET years == sorted(Unique(df, "year"))
           index == list_index(years, DefaultYear)
       IN IF ~index.ok
          THEN /\ pc' = "error"
               /\ out' = [tab |-> "tab2", error |-> "ValueError"]
          ELSE /\ pc' = "tab3"
               /\ \E selected_year_heatmap \in Unique(df, "year"),
                     selected_month \in Options(Unique(df, "month")),
                     selected_day \in Options(Unique(df, "day")),
                     selected_hour \in HourChoices :
                    LET h1 == SelectSeq(df, LAMBDA r : r.year = selected_year_heatmap)
                        h2 == IF ~selected_month.all
                              THEN SelectSeq(h1, LAMBDA r : EqSel(r.month, selected_month))
                              ELSE h1
                        h3 == IF ~selected_day.all
                              THEN SelectSeq(h2, LAMBDA r : EqSel(r.day, selected_day))
                              ELSE h2
                        df_heatmap == SelectSeq(h3, LAMBDA r : r.hour = selected_hour)
                    IN \E selected_neighborhood \in {"All"} \cup Unique(df_heatmap, "neigh") :
                         LET df_heatmap_filtered ==
                                 IF selected_neighborhood # "All"
                                 THEN SelectSeq(df_heatmap,
                                                LAMBDA r : r.neigh = selected_neighborhood)
                                 ELSE df_heatmap
                         IN out' = [tab |-> "tab2", sel |-> df_heatmap_filtered,
                                    cat_counts |-> value_counts(df_heatmap_filtered, "cat"),
                                    time_series |-> groupby_month(df_heatmap_filtered)]
    /\ UNCHANGED df
    /\ QueryFrame
    /\ OtherSpecsIdle

\* lines 140-155
Tab3 ==
    /\ pc = "tab3"
    /\ \E selected_hour \in HourChoices,
          selected_district \in SelectBox(Unique(df, "dist") \ {NaN}) :
         LET df_day == SelectSeq(df, LAMBDA r : r.hour = selected_hour
                                                /\ r.dist = selected_district)
             df_day_agg == value_counts(df_day, "weekday")
         IN out' = [tab |-> "tab3", sel |-> df_day, df_day_agg |-> df_day_agg,
                    x |-> x_sort(df_day_agg)]
    /\ pc' = "tab4"
    /\ UNCHANGED df
    /\ QueryFrame
    /\ OtherSpecsIdle

\* lines 157-186
Tab4 ==
    /\ pc = "tab4"
    /\ \E selected_year \in SelectBoxInt(Unique(df, "year")),
          incident_category_filter \in {"All"} \cup Unique(df, "cat") :
         LET c1 == SelectSeq(df, LAMBDA r : EqSel(r.year, selected_year))
             df_cat == IF incident_category_filter # "All"
                       THEN SelectSeq(c1, LAMBDA r : r.cat = incident_category_filter)
                       ELSE c1
         IN out' = [tab |-> "tab4", sel |-> df_cat,
                    cat_counts |-> value_counts(df_cat, "cat"),
                    pie |-> value_counts(df_cat, "resolution_status")]
    /\ pc' = "tab5"
    /\ UNCHANGED df
    /\ QueryFrame
    /\ OtherSpecsIdle

\* lines 206-230
Tab5 ==
    /\ pc = "tab5"
    /\ \E neigh1 \in SelectBox(Unique(df, "neigh")), neigh2 \in SelectBox(Unique(df, "neigh")) :
         out' = [tab |-> "tab5",
                 sel |-> SelectSeq(df, LAMBDA r : r.neigh = neigh1),
                 df_neigh2 |-> SelectSeq(df, LAMBDA r : r.neigh = neigh2)]
    /\ pc' = "done"
    /\ UNCHANGED df
    /\ QueryFrame
    /\ OtherSpecsIdle

Init ==
    /\ csv \in CsvFiles
    /\ cache = NoEntry
    /\ builds = 0
    /\ pc = "start"
    /\ df = <<>>
    /\ sf_geo = NoValue
    /\ out = NoOut
    /\ runs = 0
    /\ applies = 0
    /\ geoloads = 0
    /\ sess = <<>>
    /\ lock = 0
    /\ cl = <<>>
    /\ lim = <<>>
    /\ rs42 = <<>>

Next ==
    \/ RunScript
    \/ LoadData
    \/ Line33
    \/ Line34
    \/ LoadGeo
    \/ Tab1
    \/ Tab2
    \/ Tab3
    \/ Tab4
    \/ Tab5

Spec == Init /\ [][Next]_vars

(***************************************************************************)
(* Properties of the script run (specification Spec).                      *)
(***************************************************************************)
Built == pc \notin {"start", "l32"}
QueryPcs == {"tab1", "tab2", "tab3", "tab4", "tab5"}
Rows(frame) == {frame[i] : i \in 1..Len(frame)}
NumberOf(frame, P(_)) == Cardinality({i \in 1..Len(frame) : P(frame[i])})

\* a raw row with a timestamp that parses and both coordinates
Usable(raw) == ~to_datetime(raw.dt).nat /\ raw.lat # NaN /\ raw.lon # NaN

\* record r is the normalised form of row i of the file (RangeIndex label i - 1)
Corresponds(r, i) ==
    /\ r.idx = i - 1
    /\ r.dt = to_datetime(csv[i].dt)
    /\ r.lat = csv[i].lat /\ r.lon = csv[i].lon
    /\ r.res = csv[i].res /\ r.dist = csv[i].dist

\* C1: the frame load_data returns holds exactly one record for every row of the
\* file whose datetime parses and whose Latitude and Longitude are present, none
\* for a row whose datetime does not parse or that lacks a coordinate, and no
\* record that is not the record of some row.
C1_HardRowFilter ==
    Built =>
        /\ \A i \in 1..Len(csv) :
              NumberOf(df, LAMBDA r : r.idx = i - 1) = (IF Usable(csv[i]) THEN 1 ELSE 0)
        /\ \A r \in Rows(df) : \E i \in 1..Len(csv) : Corresponds(r, i)
        /\ cache.has /\ Len(cache.val) = Len(df)

C1_Witness ==
    /\ pc = "l33"
    /\ Len(csv) = 2 /\ Len(df) = 1
    /\ Usable(csv[2]) /\ csv[1].lon = NaN /\ ~to_datetime(csv[1].dt).nat

\* C3: whenever a tab can read df, every record has a timestamp and both
\* coordinates, its category and neighborhood are the raw values or "Unknown"
\* where the raw value is missing, and its resolution_status is norm_res of its
\* own Resolution.
C3_RecordInvariant ==
    pc \in QueryPcs =>
        \A r \in Rows(df) :
            /\ ~r.dt.nat /\ r.lat # NaN /\ r.lon # NaN
            /\ r.cat # NaN /\ r.neigh # NaN
            /\ LET raw == csv[r.idx + 1]
               IN /\ r.cat = (IF raw.cat = NaN THEN "Unknown" ELSE raw.cat)
                  /\ r.neigh = (IF raw.neigh = NaN THEN "Unknown" ELSE raw.neigh)
                  /\ r.res = raw.res
            /\ "resolution_status" \in DOMAIN r
            /\ r.resolution_status = norm_res(r.res)

C3_Witness ==
    /\ pc = "tab1"
    /\ \E r \in Rows(df) : r.cat = "Unknown" /\ r.neigh = "Unknown" /\ r.resolution_status = "Open"
    /\ \E r \in Rows(df) : r.cat # "Unknown" /\ r.resolution_status = "Resolved"

\* the filtered subset a tab aggregated is a sub-frame of df
IsSubFrame(sub, frame) == \A r \in Rows(sub) : r \in Rows(frame)

\* C4 as stated: the weekday aggregate of tab3 has an entry for each of the seven
\* weekday names, with count zero where the filtered subset has no record, in the
\* order Sunday .. Saturday.
C4_AllSevenWeekdays ==
    out.tab = "tab3" =>
        /\ \A w \in Rows(DayNames) :
              \E e \in out.df_day_agg :
                  e.value = w /\ e.count = NumberOf(out.sel, LAMBDA r : r.weekday = w)
        /\ out.x = DayNames

\* C4 amended: the weekday aggregate of tab3 has an entry exactly for the weekdays
\* that occur in the filtered subset, each with its number of records (at least
\* one); a weekday without a record has no entry, and a selection matching no
\* record gives an empty table.  The chart lists the weekdays present in the order
\* Sunday .. Saturday.
C4_PresentWeekdaysOnly ==
    out.tab = "tab3" =>
        /\ IsSubFrame(out.sel, df)
        /\ \A w \in Rows(DayNames) :
              LET n == NumberOf(out.sel, LAMBDA r : r.weekday = w)
              IN IF n = 0
                 THEN \A e \in out.df_day_agg : e.value # w
                 ELSE Cardinality({e \in out.df_day_agg : e.value = w}) = 1
                      /\ \A e \in out.df_day_agg : e.value = w => e.count = n
        /\ \A e \in out.df_day_agg : e.value \in Rows(DayNames)
        /\ Rows(out.x) = {e.value : e \in out.df_day_agg}
        /\ \A i, j \in 1..Len(out.x) :
              i < j => \E a, b \in 1..7 : a < b /\ DayNames[a] = out.x[i] /\ DayNames[b] = out.x[j]

C4_Witness ==
    /\ out.tab = "tab3"
    /\ out.x = <<"Sunday", "Monday">>
    /\ Cardinality(out.df_day_agg) = 2

C4_EmptyWitness == out.tab = "tab3" /\ df # <<>> /\ out.sel = <<>> /\ out.df_day_agg = {}

\* C5 as stated: the monthly buckets of tab1 and tab2 are keyed by the first day
\* of the month of the records they count.
C5_KeyedByFirstDay ==
    /\ out.tab = "tab1" => \A e \in out.df_time_series : e.date.day = 1
    /\ out.tab = "tab2" /\ pc # "error" => \A e \in out.time_series : e.date.day = 1

InMonthOf(r, e) == r.year = e.date.year /\ r.month = e.date.month

\* C5 amended: grouping by calendar month puts every record of the filtered subset
\* in exactly one bucket, keyed by the last day (month end) of the record's own
\* calendar month, and each bucket's count is the number of filtered records of
\* that month (of that month and category in tab1); two records of March 2024
\* give one bucket at 2024-03-31 with count 2.
C5_KeyedByMonthEnd ==
    /\ out.tab = "tab1" =>
          /\ \A r \in Rows(out.sel) :
                Cardinality({e \in out.df_time_series : InMonthOf(r, e) /\ e.cat = r.cat}) = 1
          /\ \A e \in out.df_time_series :
                /\ e.date.day = DaysInMonth(e.date.year, e.date.month)
                /\ e.count = NumberOf(out.sel, LAMBDA r : InMonthOf(r, e) /\ r.cat = e.cat)
                /\ e.count >= 1
    /\ out.tab = "tab2" /\ pc # "error" =>
          /\ \A r \in Rows(out.sel) :
                Cardinality({e \in out.time_series : InMonthOf(r, e)}) = 1
          /\ \A e \in out.time_series :
                /\ e.date.day = DaysInMonth(e.date.year, e.date.month)
                /\ e.count = NumberOf(out.sel, LAMBDA r : InMonthOf(r, e))

C5_Witness ==
    /\ out.tab = "tab1"
    /\ Len(csv) = 3 /\ csv[2].lon = NaN /\ Len(out.sel) = 2
    /\ out.df_time_series =
          {[date |-> [year |-> 2024, month |-> 3, day |-> 31], cat |-> "Larceny", count |-> 2]}

C5_WitnessTab2 ==
    /\ out.tab = "tab2" /\ pc = "tab3"
    /\ Len(out.sel) = 2
    /\ out.time_series = {[date |-> [year |-> 2025, month |-> 3, day |-> 31], count |-> 2]}

C5_WitnessEmptyMonth ==
    /\ out.tab = "tab2" /\ pc = "tab3"
    /\ [date |-> [year |-> 2025, month |-> 2, day |-> 28], count |-> 0] \in out.time_series

\* C6: no tab of a script run ends in an exception.
C6_NoQueryError == pc # "error"

\* C9 as stated: once load_data has returned the record set, no later step of the
\* run changes it.
C9_ReturnedSetNeverChanges == [][(Built /\ pc' # "l32") => df' = df]_vars

\* C9 amended: the record set load_data returns gets the resolution_status column
\* and the defaulted category at lines 33-34; once line 34 has run, no later step
\* of the run changes df, every filter leaves it as it is, and the memoised frame
\* is never changed once stored.
C9_FrozenAfterLine34 ==
    [][/\ (pc \in QueryPcs \cup {"done", "error"} /\ pc' # "l32") => df' = df
       /\ cache.has => cache' = cache]_vars

C9_Witness ==
    /\ pc = "tab2" /\ runs = 2
    /\ out.tab = "tab1" /\ Len(out.sel) < Len(df)
    /\ cache.has /\ cache.val # df

\* C10 as stated: the body of load_data, the classification of line 33 and the
\* load of the boundary file each run once, and not again.
C10_EachStageOnce == builds <= 1 /\ applies <= 1 /\ geoloads <= 1

\* C10 amended: the body of load_data runs once per process, in the first script
\* run; the classification (line 33) and the load of the boundary file (lines
\* 36-37) run once in every script run, before any tab of that run, and so run
\* again on every user interaction.
C10_StagesPerRun ==
    /\ builds <= 1
    /\ applies <= runs /\ geoloads <= runs
    /\ pc \in QueryPcs \cup {"done", "error"} =>
          builds = 1 /\ applies = runs /\ geoloads = runs /\ sf_geo = "features"

C10_Witness == pc = "tab1" /\ runs = 2 /\ builds = 1 /\ applies = 2 /\ geoloads = 2

(***************************************************************************)
(* SpecCache: several sessions reach line 32 at once.  st.cache_data reads *)
(* the entry; on a miss it takes the entry's compute lock, reads again,    *)
(* and only then runs the body and writes the entry.                       *)
(***************************************************************************)
Sessions == 1..MaxSessions

ScriptIdle == UNCHANGED <<pc, df, sf_geo, out, runs, applies, geoloads, cl, lim, rs42>>

\* a session's script run reaches line 32
SessRun(s) ==
    /\ sess[s].pc \in {"start", "ready"}
    /\ sess[s].runs < MaxRuns
    /\ sess' = [sess EXCEPT ![s] = [pc |-> "l32", df |-> <<>>, missed |-> FALSE,
                                    runs |-> sess[s].runs + 1]]
    /\ UNCHANGED <<csv, cache, builds, lock>>
    /\ ScriptIdle

\* the first read of the entry: a hit returns a copy, a miss goes for the lock
SessRead(s) ==
    /\ sess[s].pc = "l32"
    /\ IF CacheHit(cache)
       THEN sess' = [sess EXCEPT ![s].pc = "l33", ![s].df = cache.val]
       ELSE sess' = [sess EXCEPT ![s].pc = "wait", ![s].missed = TRUE]
    /\ UNCHANGED <<csv, cache, builds, lock>>
    /\ ScriptIdle

\* with compute_value_lock: one session at a time
SessLock(s) ==
    /\ sess[s].pc = "wait"
    /\ lock = 0
    /\ lock' = s
    /\ sess' = [sess EXCEPT ![s].pc = "locked"]
    /\ UNCHANGED <<csv, cache, builds>>
    /\ ScriptIdle

\* the second read, under the lock: another session may have stored the entry
SessReread(s) ==
    /\ sess[s].pc = "locked"
    /\ IF CacheHit(cache)
       THEN /\ sess' = [sess EXCEPT ![s].pc = "l33", ![s].df = cache.val]
            /\ lock' = 0
       ELSE /\ sess' = [sess EXCEPT ![s].pc = "body"]
            /\ lock' = lock
    /\ UNCHANGED <<csv, cache, builds>>
    /\ ScriptIdle

\* lines 9-19 run
SessBody(s) ==
    /\ sess[s].pc = "body"
    /\ builds' = builds + 1
    /\ sess' = [sess EXCEPT ![s].pc = "write", ![s].df = load_data_body(csv)]
    /\ UNCHANGED <<csv, cache, lock>>
    /\ ScriptIdle

\* the entry is written and the lock released
SessWrite(s) ==
    /\ sess[s].pc = "write"
    /\ cache' = Entry(sess[s].df)
    /\ lock' = 0
    /\ sess' = [sess EXCEPT ![s].pc = "l33"]
    /\ UNCHANGED <<csv, builds>>
    /\ ScriptIdle

\* lines 33-34 on the session's own frame
SessLines33_34(s) ==
    /\ sess[s].pc = "l33"
    /\ sess' = [sess EXCEPT ![s].pc = "ready", ![s].df = FillCategory(ApplyNormRes(sess[s].df))]
    /\ UNCHANGED <<csv, cache, builds, lock>>
    /\ ScriptIdle

\* files of at most one row: the interleaving, not the data, is what this explores
InitCache ==
    /\ csv \in {f \in CsvFiles : Len(f) <= 1}
    /\ cache = NoEntry
    /\ builds = 0
    /\ pc = "start"
    /\ df = <<>>
    /\ sf_geo = NoValue
    /\ out = NoOut
    /\ runs = 0
    /\ applies = 0
    /\ geoloads = 0
    /\ sess = [s \in Sessions |-> [pc |-> "start", df |-> <<>>, missed |-> FALSE, runs |-> 0]]
    /\ lock = 0
    /\ cl = <<>>
    /\ lim = <<>>
    /\ rs42 = <<>>

NextCache ==
    \E s \in Sessions :
        \/ SessRun(s)
        \/ SessRead(s)
        \/ SessLock(s)
        \/ SessReread(s)
        \/ SessBody(s)
        \/ SessWrite(s)
        \/ SessLines33_34(s)

SpecCache == InitCache /\ [][NextCache]_vars

\* C8: however the sessions' first accesses interleave, the body of load_data
\* runs at most once in the process, and every access, concurrent or later,
\* gets the frame that one execution built.
C8_SingleBuild ==
    /\ builds <= 1
    /\ \A s \in Sessions :
          /\ sess[s].pc \in {"write", "l33"} =>
                builds = 1 /\ sess[s].df = load_data_body(csv)
          /\ sess[s].pc \in {"l33", "ready"} => cache = Entry(load_data_body(csv))
          /\ sess[s].pc = "ready" => sess[s].df = FillCategory(ApplyNormRes(cache.val))

C8_Witness ==
    /\ builds = 1
    /\ \A s \in Sessions : sess[s].missed /\ sess[s].runs = 1 /\ sess[s].pc = "ready"
    /\ csv # <<>>

(***************************************************************************)
(* SpecClassify: norm_res called on its own.                               *)
(***************************************************************************)
Prefixes == {<<>>, <<"x">>, <<"N","o","t"," ">>}
Suffixes == {<<>>, <<"s">>, <<" ","M","A","D","E">>}
Cores ==
    { <<>>,
      <<"A","R","R","E","S","T">>, <<"a","r","r","e","s","t">>, <<"A","r","r","e","s","t">>,
      <<"A","R","R","E","S">>, <<"A","R","R","E","S"," ","T">>,
      <<"B","O","O","K","E","D">>, <<"b","o","o","k","e","d">>, <<"B","O","O","K">>,
      <<"C","I","T","E","D">>, <<"E","x","c","i","t","e","d">>, <<"C","i","t","e">>,
      <<"C","L","E","A","R","E","D">>, <<"c","l","e","a","r","e","d">>, <<"C","l","e","a","r">>,
      <<"E","X","C","E","P","T","I","O","N","A","L">>, <<"e","x","c","e","p","t","i","o","n","a","l">>,
      <<"E","x","c","e","p","t","i","o","n">>,
      <<"U","n","f","o","u","n","d","e","d">>,
      <<"O","p","e","n"," ","-"," ","A","c","t","i","v","e">>,
      <<"C","a","s","e"," ","C","l","e","a","r","e","d"," ","b","y"," ","A","r","r","e","s","t">>,
      <<"n","a","n">>, <<"N","o","n","e">> }

ClassifyInputs ==
    {StrVal(p \o c \o q) : p \in Prefixes, c \in Cores, q \in Suffixes}
        \cup {NanVal, NoneVal, IntVal(<<"7">>), IntVal(<<"4","2">>)}

NormResCall ==
    /\ \E r \in ClassifyInputs : cl' = [called |-> TRUE, r |-> r, res |-> norm_res(r)]
    /\ UNCHANGED <<csv, cache, builds, pc, df, sf_geo, out, runs, applies, geoloads,
                   sess, lock, lim, rs42>>

InitClassify ==
    /\ csv = <<>>
    /\ cache = NoEntry
    /\ builds = 0
    /\ pc = "start"
    /\ df = <<>>
    /\ sf_geo = NoValue
    /\ out = NoOut
    /\ runs = 0
    /\ applies = 0
    /\ geoloads = 0
    /\ sess = <<>>
    /\ lock = 0
    /\ cl = [called |-> FALSE, r |-> NoneVal, res |-> "none"]
    /\ lim = <<>>
    /\ rs42 = <<>>

NextClassify == NormResCall

SpecClassify == InitClassify /\ [][NextClassify]_vars

\* the text Python's str() gives the argument
TextOf(r) ==
    IF r.t = "str" THEN r.v
    ELSE IF r.t = "nan" THEN <<"n","a","n">>
    ELSE IF r.t = "none" THEN <<"N","o","n","e">>
    ELSE r.v

Keywords == {resolved_keys[i] : i \in 1..Len(resolved_keys)}

\* k occurs in s: s = a \o k \o b for some a and b
Occurs(k, s) ==
    \E i \in 0..Len(s) : \E j \in i..Len(s) : j - i = Len(k) /\ \A n \in 1..Len(k) : s[i + n] = k[n]

\* C2: norm_res returns a status for every argument - a str, the empty str, a
\* missing value (nan), None, a number - and the status is Resolved exactly when
\* the uppercased text of the argument contains ARREST, BOOKED, CITED, CLEARED or
\* EXCEPTIONAL, and Open otherwise.
C2_ClassifyTotal ==
    cl.called =>
        /\ cl.res \in {"Resolved", "Open"}
        /\ cl.res = "Resolved" <=> \E k \in Keywords : Occurs(k, Upper(TextOf(cl.r)))
        /\ cl.r \in {NoneVal, NanVal, StrVal(<<>>), StrVal(<<"U","n","f","o","u","n","d","e","d">>)}
              => cl.res = "Open"
        /\ cl.r = StrVal(<<"A","R","R","E","S","T"," ","M","A","D","E">>) => cl.res = "Resolved"

C2_Witness ==
    /\ cl.called
    /\ cl.r = StrVal(<<"C","a","s","e"," ","C","l","e","a","r","e","d"," ","b","y"," ",
                       "A","r","r","e","s","t">>)
    /\ cl.res = "Resolved"

C2_WitnessMissing == cl.called /\ cl.r = NanVal /\ cl.res = "Open"

(***************************************************************************)
(* SpecLimit: limit_data called on a frame of n rows.  DataFrame.sample    *)
(* with random_state=42 seeds a fresh generator on every call and takes    *)
(* the first max_rows positions of the permutation it draws; which         *)
(* permutation that is is left open (rs42), what matters is that the seed  *)
(* fixes it.  A call without a seed would draw from numpy's global         *)
(* generator, whose next permutation differs from call to call.            *)
(***************************************************************************)
Orderings(n) == {p \in [1..n -> 1..n] : \A i, j \in 1..n : p[i] = p[j] => i = j}

\* the positions sample draws: rs.choice(len, size=n, replace=False)
SampleLocsUnseeded(seeded, global) == global
SampleLocs(seeded, global) == seeded

\* DataFrame.sample(n, random_state=42): take(locs[:n])
sample(frame, n, locs) == [i \in 1..n |-> frame[locs[i]]]

\* limit_data(df, max_rows)
limit_data(frame, max_rows, locs) ==
    IF Len(frame) > max_rows THEN sample(frame, max_rows, locs) ELSE frame

MaxCalls == 2

LimitDataCall ==
    /\ Len(lim.calls) < MaxCalls
    /\ \E max_rows \in 0..(MaxLimRows + 1), global \in Orderings(Len(lim.df)) :
         lim' = [lim EXCEPT !.calls =
                    Append(@, [max_rows |-> max_rows,
                               result |-> limit_data(lim.df, max_rows,
                                                     SampleLocs(rs42, global))])]
    /\ UNCHANGED <<csv, cache, builds, pc, df, sf_geo, out, runs, applies, geoloads,
                   sess, lock, cl, rs42>>

InitLimit ==
    /\ csv = <<>>
    /\ cache = NoEntry
    /\ builds = 0
    /\ pc = "start"
    /\ df = <<>>
    /\ sf_geo = NoValue
    /\ out = NoOut
    /\ runs = 0
    /\ applies = 0
    /\ geoloads = 0
    /\ sess = <<>>
    /\ lock = 0
    /\ cl = <<>>
    /\ \E n \in 0..MaxLimRows :
         /\ lim = [df |-> [i \in 1..n |-> i], calls |-> <<>>]
         /\ rs42 \in Orderings(n)

NextLimit == LimitDataCall

SpecLimit == InitLimit /\ [][NextLimit]_vars

Min(a, b) == IF a < b THEN a ELSE b

\* C7: limit_data returns min(len, max_rows) rows; a frame of at most max_rows
\* rows is returned as it is; of a longer frame exactly max_rows rows are returned,
\* each a row of the frame and none twice; and two calls on the same frame with
\* the same max_rows return the same rows.
C7_BoundedSample ==
    /\ \A c \in 1..Len(lim.calls) :
          LET call == lim.calls[c]
          IN /\ Len(call.result) = Min(Len(lim.df), call.max_rows)
             /\ Len(lim.df) <= call.max_rows => call.result = lim.df
             /\ \A i \in 1..Len(call.result) : call.result[i] \in Rows(lim.df)
             /\ \A i, j \in 1..Len(call.result) : call.result[i] = call.result[j] => i = j
    /\ \A c, d \in 1..Len(lim.calls) :
          lim.calls[c].max_rows = lim.calls[d].max_rows
              => lim.calls[c].result = lim.calls[d].result

C7_Witness ==
    /\ Len(lim.df) = 3
    /\ Len(lim.calls) = 2
    /\ lim.calls[1].max_rows = 2 /\ lim.calls[2].max_rows = 2
    /\ Len(lim.calls[1].result) = 2
    /\ lim.calls[1].result # SubSeq(lim.df, 1, 2)

C7_WitnessUnsampled ==
    /\ Len(lim.df) = 3 /\ Len(lim.calls) = 1
    /\ lim.calls[1].max_rows = 3 /\ lim.calls[1].result = lim.df
    /\ rs42 # lim.df
====
